---- MODULE Spec2Model ----
(***************************************************************************)
(* Model of make_chapters (src/main.py): the silence map, the candidate    *)
(* filter (silence gate, debounce, deduplication, sequential validation,   *)
(* back-matter choice) and the segment builder.                            *)
(*                                                                         *)
(* Times are integers on a grid of Scale ticks per second, so the source's *)
(* literals become: 1.0 s = Scale ticks, "x > 0.2" = "5*x > Scale".        *)
(* An optional value (Python None / value) is <<>> / <<v>>.                *)
(* Tuples keep the source's layout: a silence is <<start, end>>, a raw     *)
(* candidate <<kind, t_start, t_end, n>>, a chapter or mark                *)
(* <<t_start, t_end, n>>, a segment <<start, end, label>> where the label  *)
(* is <<"preface">>, <<"chapter", n>> or <<"back_matter">>.                *)
(* seen is a history variable: the detector log lines already parsed.      *)
(* A phrase is the sequence of its words (joining with one space is        *)
(* concatenation); the Russian words are written in Latin letters.         *)
(* phrase_n is a history variable: the number each phrase was emitted for. *)
(***************************************************************************)
EXTENDS Integers, Sequences, FiniteSets, TLC

VARIABLES pc, log, raw_silences, last_start, silences, s_starts, s_ends, query,
          args, raw_candidates, chapter_candidates, ci, chapters, last_keep_t,
          marks, back_start, total_duration, segments, cleaned, si,
          seen, res, results_left, conf_min, back_trigger,
          language, include_ordinals, max_chapters, cur_n,
          phrases, phrase_n, spoken_to_int, ord_stack, ord_ret

silVars == <<log, raw_silences, last_start, s_starts, s_ends, query>>
filtVars == <<raw_candidates, chapter_candidates, ci, chapters, last_keep_t>>
segVars == <<total_duration, segments, cleaned, si>>
parseVars == <<res, results_left, conf_min, back_trigger>>
gramVars == <<language, include_ordinals, max_chapters, cur_n, phrases, phrase_n,
              spoken_to_int, ord_stack, ord_ret>>
extVars == <<seen, parseVars, gramVars>>
vars == <<pc, log, raw_silences, last_start, silences, s_starts, s_ends, query,
          args, raw_candidates, chapter_candidates, ci, chapters, last_keep_t,
          marks, back_start, total_duration, segments, cleaned, si,
          seen, res, results_left, conf_min, back_trigger,
          language, include_ordinals, max_chapters, cur_n,
          phrases, phrase_n, spoken_to_int, ord_stack, ord_ret>>

(***************************************************************************)
(* Bounds of the model.                                                    *)
(***************************************************************************)
Scale == 2
MaxLog == 3
MaxSilVal == 2
MaxQuery == 3

None == <<>>
Some(v) == <<v>>
Max(a, b) == IF a >= b THEN a ELSE b

(***************************************************************************)
(* sorted(xs, key=lambda x: x[k]) and list.sort(key=...): Python's sort    *)
(* is stable, so an element goes after every element whose key is <= its   *)
(* own.  k is the 1-based position of the key in the tuple.                *)
(***************************************************************************)
RECURSIVE InsertByKey(_, _, _)
InsertByKey(sorted, x, k) ==
    IF sorted = <<>> THEN <<x>>
    ELSE IF sorted[Len(sorted)][k] <= x[k] THEN Append(sorted, x)
    ELSE Append(InsertByKey(SubSeq(sorted, 1, Len(sorted) - 1), x, k),
                sorted[Len(sorted)])

RECURSIVE SortedByKey(_, _)
SortedByKey(xs, k) ==
    IF xs = <<>> THEN <<>>
    ELSE InsertByKey(SortedByKey(SubSeq(xs, 1, Len(xs) - 1), k), xs[Len(xs)], k)

(***************************************************************************)
(* detect_silences: the log of the silence detector, line by line.         *)
(* A line is <<"start", v>> (silence_start: v), <<"start_bad">> (the       *)
(* float() of a silence_start line raises), <<"end", v>> (silence_end: v | *)
(* silence_duration: d), <<"end_bad">> (float(parts[1]) raises) or         *)
(* <<"other">>.                                                            *)
(***************************************************************************)
SilVals == (0 - 1) .. MaxSilVal
LogLines == ({"start", "end"} \X SilVals) \cup {<<"start_bad">>, <<"end_bad">>, <<"other">>}

(* Variant of ParseLine: the pending start survives a silence_end line.    *)
ParseLine_KeepsPending ==
    /\ pc = "parse_log"
    /\ log # <<>>
    /\ LET line == Head(log) IN
         /\ log' = Tail(log)
         /\ seen' = Append(seen, line)
         /\ CASE line[1] = "start" ->
                   /\ last_start' = Some(line[2])
                   /\ UNCHANGED raw_silences
              [] line[1] = "end" ->
                   /\ raw_silences' = Append(raw_silences,
                          <<IF last_start = None THEN line[2] ELSE last_start[1], line[2]>>)
                   /\ UNCHANGED last_start
              [] OTHER -> UNCHANGED <<raw_silences, last_start>>
    /\ UNCHANGED <<pc, silences, s_starts, s_ends, query, args, marks, back_start>>
    /\ UNCHANGED filtVars
    /\ UNCHANGED segVars
    /\ UNCHANGED <<parseVars, gramVars>>

ParseLine ==
    /\ pc = "parse_log"
    /\ log # <<>>
    /\ LET line == Head(log) IN
         /\ log' = Tail(log)
         /\ seen' = Append(seen, line)
         /\ CASE line[1] = "start" ->
                   /\ last_start' = Some(line[2])
                   /\ UNCHANGED raw_silences
              [] line[1] = "end" ->
                   /\ raw_silences' = Append(raw_silences,
                          <<IF last_start = None THEN line[2] ELSE last_start[1], line[2]>>)
                   /\ last_start' = None
              [] OTHER -> UNCHANGED <<raw_silences, last_start>>
    /\ UNCHANGED <<pc, silences, s_starts, s_ends, query, args, marks, back_start>>
    /\ UNCHANGED filtVars
    /\ UNCHANGED segVars
    /\ UNCHANGED <<parseVars, gramVars>>

(* silences = [(max(0.0, s), max(s, e)) for s, e in silences]              *)
Normalize(raw) == [i \in 1..Len(raw) |-> <<Max(0, raw[i][1]), Max(raw[i][1], raw[i][2])>>]

NormalizeSort ==
    /\ pc = "parse_log"
    /\ log = <<>>
    /\ silences' = SortedByKey(Normalize(raw_silences), 1)
    /\ pc' = "detected"
    /\ UNCHANGED <<log, raw_silences, last_start, s_starts, s_ends, query, args, marks, back_start>>
    /\ UNCHANGED filtVars
    /\ UNCHANGED segVars
    /\ UNCHANGED extVars

build_silence_index(sil) ==
    <<[i \in 1..Len(sil) |-> sil[i][1]], [i \in 1..Len(sil) |-> sil[i][2]]>>

BuildIndex ==
    /\ pc = "detected"
    /\ s_starts' = build_silence_index(silences)[1]
    /\ s_ends' = build_silence_index(silences)[2]
    /\ pc' = "indexed"
    /\ UNCHANGED <<log, raw_silences, last_start, silences, query, args, marks, back_start>>
    /\ UNCHANGED filtVars
    /\ UNCHANGED segVars
    /\ UNCHANGED extVars

(***************************************************************************)
(* bisect.bisect_right / bisect.bisect_left, as the binary search the      *)
(* library runs (the list may be unsorted: the search then still follows   *)
(* its comparisons).  Indices are 0-based as in Python; a[mid + 1] is      *)
(* Python's a[mid].                                                        *)
(***************************************************************************)
RECURSIVE BisectRightLoop(_, _, _, _)
BisectRightLoop(a, x, lo, hi) ==
    IF lo < hi
    THEN LET mid == (lo + hi) \div 2 IN
         IF x < a[mid + 1] THEN BisectRightLoop(a, x, lo, mid)
         ELSE BisectRightLoop(a, x, mid + 1, hi)
    ELSE lo
bisect_right(a, x) == BisectRightLoop(a, x, 0, Len(a))

RECURSIVE BisectLeftLoop(_, _, _, _)
BisectLeftLoop(a, x, lo, hi) ==
    IF lo < hi
    THEN LET mid == (lo + hi) \div 2 IN
         IF a[mid + 1] < x THEN BisectLeftLoop(a, x, mid + 1, hi)
         ELSE BisectLeftLoop(a, x, lo, mid)
    ELSE lo
bisect_left(a, x) == BisectLeftLoop(a, x, 0, Len(a))

(* Returns <<prev_end, next_start>>, each None or Some(v).                 *)
nearest_silence_bounds(t_start, t_end, starts, ends) ==
    LET idx_end == bisect_right(ends, t_start) - 1
        idx_start == bisect_left(starts, t_end)
    IN <<IF 0 <= idx_end /\ idx_end < Len(ends) THEN Some(ends[idx_end + 1]) ELSE None,
         IF 0 <= idx_start /\ idx_start < Len(starts) THEN Some(starts[idx_start + 1]) ELSE None>>

passes_silence_gate(t_start, t_end, starts, ends, pre_win, post_win) ==
    LET b == nearest_silence_bounds(t_start, t_end, starts, ends)
        pre_ok == b[1] # None /\ (t_start - b[1][1]) <= pre_win
        post_ok == b[2] # None /\ (b[2][1] - t_end) <= post_win
    IN pre_ok /\ post_ok

(* One proximity query against the built index.                            *)
Query ==
    /\ pc = "indexed"
    /\ \E t_start \in 0..MaxQuery : \E t_end \in t_start..MaxQuery :
         query' = <<t_start, t_end, nearest_silence_bounds(t_start, t_end, s_starts, s_ends)>>
    /\ UNCHANGED <<pc, log, raw_silences, last_start, silences, s_starts, s_ends, args, marks, back_start>>
    /\ UNCHANGED filtVars
    /\ UNCHANGED segVars
    /\ UNCHANGED extVars

(***************************************************************************)
(* Values of the variables a specification does not use.                   *)
(***************************************************************************)
NoArgs == [min_chapter_gap |-> 0, min_chapter_duration |-> 0,
           sequential_chapters |-> FALSE, silence_pre |-> 0, silence_post |-> 0]

IdleSil ==
    /\ log = <<>> /\ raw_silences = <<>> /\ last_start = None
    /\ s_starts = <<>> /\ s_ends = <<>> /\ query = None
IdleFilt ==
    /\ raw_candidates = <<>> /\ chapter_candidates = <<>> /\ ci = 0
    /\ chapters = <<>> /\ last_keep_t = 0
IdleSeg ==
    /\ total_duration = 0 /\ segments = <<>> /\ cleaned = <<>> /\ si = 0
IdleParse ==
    /\ res = None /\ results_left = 0 /\ conf_min = 0 /\ back_trigger = None
IdleGram ==
    /\ language = "en" /\ include_ordinals = FALSE /\ max_chapters = None /\ cur_n = 0
    /\ phrases = <<>> /\ phrase_n = <<>> /\ spoken_to_int = <<>>
    /\ ord_stack = <<>> /\ ord_ret = None

RECURSIVE SeqsUpTo(_, _)
SeqsUpTo(S, n) ==
    IF n = 0 THEN {<<>>}
    ELSE LET shorter == SeqsUpTo(S, n - 1) IN
         shorter \cup {Append(s, x) : s \in {t \in shorter : Len(t) = n - 1}, x \in S}

(***************************************************************************)
(* The silence map: a detector log is parsed, normalised, sorted, indexed  *)
(* and queried.                                                            *)
(***************************************************************************)
InitSil ==
    /\ pc = "parse_log"
    /\ log \in SeqsUpTo(LogLines, MaxLog)
    /\ raw_silences = <<>> /\ last_start = None
    /\ silences = <<>> /\ s_starts = <<>> /\ s_ends = <<>> /\ query = None
    /\ args = NoArgs /\ marks = <<>> /\ back_start = None
    /\ seen = <<>>
    /\ IdleFilt /\ IdleSeg /\ IdleParse /\ IdleGram

NextSil == ParseLine \/ NormalizeSort \/ BuildIndex \/ Query

SpecSil == InitSil /\ [][NextSil]_vars

(***************************************************************************)
(* C5: for every silence list the detector hands to the index,             *)
(* nearest_bounds(t_start, t_end) returns what a brute-force scan returns: *)
(* prev_end is the greatest interval end <= t_start (or none), next_start  *)
(* is the smallest interval start >= t_end (or none).                      *)
(***************************************************************************)
SetMax(S) == CHOOSE x \in S : \A y \in S : y <= x
SetMin(S) == CHOOSE x \in S : \A y \in S : x <= y
BruteBounds(t_start, t_end, sil) ==
    LET endsBefore == {sil[i][2] : i \in 1..Len(sil)} \cap {e \in (0 - 1)..(MaxSilVal + MaxQuery) : e <= t_start}
        startsAfter == {sil[i][1] : i \in 1..Len(sil)} \cap {b \in (0 - 1)..(MaxSilVal + MaxQuery) : b >= t_end}
    IN <<IF endsBefore = {} THEN None ELSE Some(SetMax(endsBefore)),
         IF startsAfter = {} THEN None ELSE Some(SetMin(startsAfter))>>

WellFormed(sil) == \A i \in 1..Len(sil) : 0 <= sil[i][1] /\ sil[i][1] <= sil[i][2]

C5_NearestBoundsIsBruteForce ==
    (pc = "indexed" /\ query # None /\ WellFormed(silences)) =>
        query[3] = BruteBounds(query[1], query[2], silences)

(***************************************************************************)
(* The candidate filter (main, steps 5 and "back trigger").                *)
(***************************************************************************)
MaxCands == 3
MaxT == 3
MaxNum == 2
MaxGap == 2
PhraseLen == 1
MaxSilPos == 1
NegInf == 0 - 1000000

SelectKind(cands, kind) == SelectSeq(cands, LAMBDA c : c[1] = kind)

(* chapters = []; last_keep_t = -1e12; chapter_candidates = sorted(...)    *)
SortCandidates ==
    /\ pc = "sort_candidates"
    /\ chapter_candidates' = SortedByKey(SelectKind(raw_candidates, "chapter"), 2)
    /\ chapters' = <<>>
    /\ last_keep_t' = NegInf
    /\ ci' = 1
    /\ pc' = "debounce"
    /\ UNCHANGED <<raw_candidates, silences, s_starts, s_ends, args, marks, back_start>>
    /\ UNCHANGED <<log, raw_silences, last_start, query>>
    /\ UNCHANGED segVars
    /\ UNCHANGED extVars

(* Variant of SilenceOk: the gate is asked even when no silence exists.    *)
SilenceOk_NoBypass(ts, te) ==
    passes_silence_gate(ts, te, s_starts, s_ends, args.silence_pre, args.silence_post)

(* The silence check of one loop iteration: TRUE when the candidate goes   *)
(* on to the gap check.                                                    *)
SilenceOk(ts, te) ==
    IF Len(silences) > 0
    THEN passes_silence_gate(ts, te, s_starts, s_ends, args.silence_pre, args.silence_post)
    ELSE TRUE

(* Variant of GapOk: "gap <= min_chapter_gap" rejects instead of "<".       *)
GapOk_Strict(ts, last) == ~((ts - last) <= args.min_chapter_gap)

GapOk(ts, last) == ~((ts - last) < args.min_chapter_gap)

(* Variant of DebounceStep: a kept candidate does not move last_keep_t.    *)
DebounceStep_StaleLast ==
    /\ pc = "debounce"
    /\ ci <= Len(chapter_candidates)
    /\ LET c == chapter_candidates[ci]
       IN IF SilenceOk(c[2], c[3]) /\ GapOk(c[2], last_keep_t)
          THEN chapters' = Append(chapters, <<c[2], c[3], c[4]>>)
          ELSE UNCHANGED chapters
    /\ ci' = ci + 1
    /\ UNCHANGED <<pc, raw_candidates, chapter_candidates, silences, s_starts, s_ends,
                   args, marks, back_start, last_keep_t>>
    /\ UNCHANGED <<log, raw_silences, last_start, query>>
    /\ UNCHANGED segVars
    /\ UNCHANGED extVars

(* One iteration of "for kind, ts, te, n in chapter_candidates".           *)
DebounceStep ==
    /\ pc = "debounce"
    /\ ci <= Len(chapter_candidates)
    /\ LET c == chapter_candidates[ci]
           ts == c[2]
           te == c[3]
           n == c[4]
       IN IF SilenceOk(ts, te) /\ GapOk(ts, last_keep_t)
          THEN /\ chapters' = Append(chapters, <<ts, te, n>>)
               /\ last_keep_t' = ts
          ELSE UNCHANGED <<chapters, last_keep_t>>
    /\ ci' = ci + 1
    /\ UNCHANGED <<pc, raw_candidates, chapter_candidates, silences, s_starts, s_ends,
                   args, marks, back_start>>
    /\ UNCHANGED <<log, raw_silences, last_start, query>>
    /\ UNCHANGED segVars
    /\ UNCHANGED extVars

(* Variant of FirstPerNumber: a kept number is not added to seen_nums.     *)
RECURSIVE FirstPerNumber_NoSeen(_, _)
FirstPerNumber_NoSeen(chs, seen_nums) ==
    IF chs = <<>> THEN <<>>
    ELSE IF Head(chs)[3] \notin seen_nums
         THEN <<Head(chs)>> \o FirstPerNumber_NoSeen(Tail(chs), seen_nums)
         ELSE FirstPerNumber_NoSeen(Tail(chs), seen_nums)

(* Keep first occurrence per chapter number.                               *)
RECURSIVE FirstPerNumber(_, _)
FirstPerNumber(chs, seen_nums) ==
    IF chs = <<>> THEN <<>>
    ELSE IF Head(chs)[3] \notin seen_nums
         THEN <<Head(chs)>> \o FirstPerNumber(Tail(chs), seen_nums \cup {Head(chs)[3]})
         ELSE FirstPerNumber(Tail(chs), seen_nums)

HandleDuplicates ==
    /\ pc = "debounce"
    /\ ci > Len(chapter_candidates)
    /\ marks' = IF args.sequential_chapters
                THEN SortedByKey(chapters, 1)
                ELSE SortedByKey(FirstPerNumber(chapters, {}), 1)
    /\ pc' = "sequential"
    /\ UNCHANGED <<raw_candidates, chapter_candidates, ci, chapters, last_keep_t,
                   silences, s_starts, s_ends, args, back_start>>
    /\ UNCHANGED <<log, raw_silences, last_start, query>>
    /\ UNCHANGED segVars
    /\ UNCHANGED extVars

(* Variant of SequentialMarks: expected_chapter is not incremented.        *)
RECURSIVE SequentialMarks_NoIncrement(_, _)
SequentialMarks_NoIncrement(ms, expected_chapter) ==
    IF ms = <<>> THEN <<>>
    ELSE IF Head(ms)[3] = expected_chapter
         THEN <<Head(ms)>> \o SequentialMarks_NoIncrement(Tail(ms), expected_chapter)
         ELSE SequentialMarks_NoIncrement(Tail(ms), expected_chapter)

RECURSIVE SequentialMarks(_, _)
SequentialMarks(ms, expected_chapter) ==
    IF ms = <<>> THEN <<>>
    ELSE IF Head(ms)[3] = expected_chapter
         THEN <<Head(ms)>> \o SequentialMarks(Tail(ms), expected_chapter + 1)
         ELSE SequentialMarks(Tail(ms), expected_chapter)

SequentialFilter ==
    /\ pc = "sequential"
    /\ marks' = IF args.sequential_chapters
                THEN SequentialMarks(SortedByKey(marks, 1), 1)
                ELSE marks
    /\ pc' = "back_trigger"
    /\ UNCHANGED <<raw_candidates, chapter_candidates, ci, chapters, last_keep_t,
                   silences, s_starts, s_ends, args, back_start>>
    /\ UNCHANGED <<log, raw_silences, last_start, query>>
    /\ UNCHANGED segVars
    /\ UNCHANGED extVars

(* Back trigger: the first candidate, in time order, that passes the gate. *)
RECURSIVE FirstBack(_)
FirstBack(backs) ==
    IF backs = <<>> THEN None
    ELSE IF passes_silence_gate(Head(backs)[2], Head(backs)[3], s_starts, s_ends,
                                args.silence_pre, args.silence_post)
         THEN Some(Head(backs)[2])
         ELSE FirstBack(Tail(backs))

BackTrigger ==
    /\ pc = "back_trigger"
    /\ back_start' = FirstBack(SortedByKey(SelectKind(raw_candidates, "back"), 2))
    /\ pc' = "filtered"
    /\ UNCHANGED <<raw_candidates, chapter_candidates, ci, chapters, last_keep_t,
                   silences, s_starts, s_ends, args, marks>>
    /\ UNCHANGED <<log, raw_silences, last_start, query>>
    /\ UNCHANGED segVars
    /\ UNCHANGED extVars

(***************************************************************************)
(* Inputs of the filter: the raw candidates the recognition loop has       *)
(* accumulated, the silence map, and the options.  The recognizer reports  *)
(* its results in time order, so raw_candidates is in t_start order (ties  *)
(* in any order); numbers and kinds are arbitrary.                         *)
(***************************************************************************)
Candidates ==
    {<<"chapter", t, t + PhraseLen, n>> : t \in 0..MaxT, n \in 1..MaxNum}
        \cup {<<"back", t, t + PhraseLen, None>> : t \in 0..MaxT}

RECURSIVE ChronologicalLists(_)
ChronologicalLists(n) ==
    IF n = 0 THEN {<<>>}
    ELSE LET shorter == ChronologicalLists(n - 1) IN
         shorter \cup UNION {{Append(cs, c) : c \in {x \in Candidates :
                                    cs = <<>> \/ cs[Len(cs)][2] <= x[2]}} :
                                cs \in {x \in shorter : Len(x) = n - 1}}

(* Silence maps: no silence, or silences of one tick that leave room for   *)
(* one phrase between them, starting at tick a.                            *)
SilenceComb(a) == [k \in 1..3 |-> <<a + (k - 1) * (1 + PhraseLen), a + (k - 1) * (1 + PhraseLen) + 1>>]
SilenceMaps == {<<>>} \cup {SilenceComb(a) : a \in 0..MaxSilPos}

InitFilter ==
    /\ pc = "sort_candidates"
    /\ raw_candidates \in ChronologicalLists(MaxCands)
    /\ silences \in SilenceMaps
    /\ s_starts = build_silence_index(silences)[1]
    /\ s_ends = build_silence_index(silences)[2]
    /\ args \in [min_chapter_gap : 0..MaxGap, min_chapter_duration : {0},
                 sequential_chapters : BOOLEAN, silence_pre : {0}, silence_post : {0}]
    /\ chapter_candidates = <<>> /\ ci = 0 /\ chapters = <<>> /\ last_keep_t = 0
    /\ marks = <<>> /\ back_start = None
    /\ log = <<>> /\ raw_silences = <<>> /\ last_start = None /\ query = None
    /\ seen = <<>>
    /\ IdleSeg /\ IdleParse /\ IdleGram

NextFilter == SortCandidates \/ DebounceStep \/ HandleDuplicates \/ SequentialFilter \/ BackTrigger

SpecFilter == InitFilter /\ [][NextFilter]_vars

(***************************************************************************)
(* C1: after the debounce pass any two kept marks have t_start values that *)
(* differ by at least min_chapter_gap.                                     *)
(***************************************************************************)
DebounceDone == pc = "debounce" /\ ci > Len(chapter_candidates)

C1_KeptMarksAreGapApart ==
    \A i \in 1..Len(chapters) : \A j \in 1..Len(chapters) :
        i < j => chapters[j][1] - chapters[i][1] >= args.min_chapter_gap

(* Three candidates, the third one tick after the second: it is dropped.   *)
C1_Witness ==
    /\ DebounceDone
    /\ args.min_chapter_gap = 2
    /\ Len(chapter_candidates) = 3
    /\ chapter_candidates[2][2] = chapter_candidates[1][2] + 2
    /\ chapter_candidates[3][2] = chapter_candidates[2][2] + 1
    /\ chapters = <<Tail(chapter_candidates[1]), Tail(chapter_candidates[2])>>

(***************************************************************************)
(* C2: in sequential-chapters mode the numbers of the final marks, read in *)
(* time order, are exactly 1, 2, ..., k.                                   *)
(***************************************************************************)
MarksFinal == pc \in {"back_trigger", "filtered"}

TimeOrdered(ms) == \A i \in 1..(Len(ms) - 1) : ms[i][1] <= ms[i + 1][1]

C2_SequentialNumbers ==
    (MarksFinal /\ args.sequential_chapters) =>
        /\ TimeOrdered(marks)
        /\ \A i \in 1..Len(marks) : marks[i][3] = i

(* The numbers arrive out of order and the first mark is discarded.        *)
C2_Witness ==
    /\ MarksFinal /\ args.sequential_chapters
    /\ Len(marks) = 2
    /\ Len(chapters) = 3
    /\ chapters[1][3] = 2

(***************************************************************************)
(* C6: with an empty silence set no chapter candidate is rejected by the   *)
(* silence gate: the debounce keeps exactly what the minimum-gap rule      *)
(* alone keeps, although passes_silence_gate itself answers false on the   *)
(* empty index.                                                            *)
(***************************************************************************)
RECURSIVE KeptByGapAlone(_, _, _)
KeptByGapAlone(cands, last, gap) ==
    IF cands = <<>> THEN <<>>
    ELSE IF Head(cands)[2] - last >= gap
         THEN <<Tail(Head(cands))>> \o KeptByGapAlone(Tail(cands), Head(cands)[2], gap)
         ELSE KeptByGapAlone(Tail(cands), last, gap)

C6_EmptySilenceBypass ==
    (DebounceDone /\ silences = <<>>) =>
        /\ chapters = KeptByGapAlone(chapter_candidates, NegInf, args.min_chapter_gap)
        /\ \A i \in 1..Len(chapter_candidates) :
               ~passes_silence_gate(chapter_candidates[i][2], chapter_candidates[i][3],
                                    s_starts, s_ends, args.silence_pre, args.silence_post)

C6_Witness ==
    /\ DebounceDone /\ silences = <<>>
    /\ Len(chapters) = 2
    /\ Len(chapter_candidates) = 3

(***************************************************************************)
(* C7: the chosen back-matter start is the t_start of the earliest back-   *)
(* matter candidate that passes the silence gate, an empty silence set     *)
(* counting as always-pass; it is none only if no candidate passes.        *)
(***************************************************************************)
BackPasses(c) ==
    \/ silences = <<>>
    \/ passes_silence_gate(c[2], c[3], s_starts, s_ends, args.silence_pre, args.silence_post)

PassingBackStarts ==
    {raw_candidates[i][2] : i \in {k \in 1..Len(raw_candidates) :
        raw_candidates[k][1] = "back" /\ BackPasses(raw_candidates[k])}}

C7_BackStartIsEarliestPassing ==
    pc = "filtered" =>
        back_start = IF PassingBackStarts = {} THEN None ELSE Some(SetMin(PassingBackStarts))

(***************************************************************************)
(* C10: with sequential-chapters mode off, the final marks hold each       *)
(* chapter number at most once, the mark retained for a number is the      *)
(* earliest among the candidates that survived gating and debounce, and    *)
(* the marks are in t_start order (strictly increasing when                *)
(* min_chapter_gap > 0).                                                   *)
(***************************************************************************)
C10_FirstOccurrencePerNumber ==
    (MarksFinal /\ ~args.sequential_chapters) =>
        /\ \A i \in 1..Len(marks) : \A j \in 1..Len(marks) :
               i # j => marks[i][3] # marks[j][3]
        /\ \A i \in 1..Len(marks) :
               /\ \E k \in 1..Len(chapters) : chapters[k] = marks[i]
               /\ \A k \in 1..Len(chapters) :
                      chapters[k][3] = marks[i][3] => marks[i][1] <= chapters[k][1]
        /\ \A k \in 1..Len(chapters) : \E i \in 1..Len(marks) : marks[i][3] = chapters[k][3]
        /\ TimeOrdered(marks)
        /\ args.min_chapter_gap > 0 =>
               \A i \in 1..(Len(marks) - 1) : marks[i][1] < marks[i + 1][1]

(* A number survives debounce twice and only its first occurrence stays.   *)
C10_Witness ==
    /\ MarksFinal /\ ~args.sequential_chapters
    /\ Len(chapters) = 3
    /\ chapters[1][3] = chapters[3][3]
    /\ marks = <<chapters[1], chapters[2]>>

(***************************************************************************)
(* The segment builder (main, steps 6 and 7).                              *)
(***************************************************************************)
MaxMarks == 3
MaxTotal == 9
MaxMinDur == 4

IsChapter(lab) == lab[1] = "chapter"

(* if first_t > 0.2: preface; one chapter_<n> per mark.                    *)
MarkSegments(ms, total) ==
    (IF 5 * ms[1][1] > Scale THEN <<<<0, ms[1][1], <<"preface">>>>>> ELSE <<>>)
    \o [i \in 1..Len(ms) |->
          <<ms[i][1],
            IF i + 1 <= Len(ms) THEN ms[i + 1][1] ELSE total,
            <<"chapter", ms[i][3]>>>>]

(* Variant of TruncateLoop: "back_start < ss" instead of "<=".             *)
RECURSIVE TruncateLoop_Strict(_, _)
TruncateLoop_Strict(segs, b) ==
    IF segs = <<>> THEN <<>>
    ELSE LET ss == Head(segs)[1]
             ee == Head(segs)[2]
             lab == Head(segs)[3]
         IN IF b < ss THEN TruncateLoop_Strict(Tail(segs), b)
            ELSE IF ss < b /\ b < ee THEN <<<<ss, b, lab>>>> \o TruncateLoop_Strict(Tail(segs), b)
            ELSE <<<<ss, ee, lab>>>> \o TruncateLoop_Strict(Tail(segs), b)

(* Truncate any segment that overlaps back_start (b) and append            *)
(* back_matter.                                                            *)
RECURSIVE TruncateLoop(_, _)
TruncateLoop(segs, b) ==
    IF segs = <<>> THEN <<>>
    ELSE LET ss == Head(segs)[1]
             ee == Head(segs)[2]
             lab == Head(segs)[3]
         IN IF b <= ss THEN TruncateLoop(Tail(segs), b)
            ELSE IF ss < b /\ b < ee THEN <<<<ss, b, lab>>>> \o TruncateLoop(Tail(segs), b)
            ELSE <<<<ss, ee, lab>>>> \o TruncateLoop(Tail(segs), b)

TruncateAtBack(segs, b, total) ==
    TruncateLoop(segs, b)
    \o (IF total - b >= Scale THEN <<<<b, total, <<"back_matter">>>>>> ELSE <<>>)

(* The branch taken when no mark exists.                                   *)
NoMarkSegments(bs, total) ==
    IF bs # None /\ bs[1] # 0 /\ bs[1] > Scale
    THEN <<<<0, bs[1], <<"preface">>>>, <<bs[1], total, <<"back_matter">>>>>>
    ELSE <<<<0, total, <<"preface">>>>>>

BuildSegments ==
    /\ pc = "build_segments"
    /\ segments' = IF marks # <<>>
                   THEN IF back_start # None
                        THEN TruncateAtBack(MarkSegments(marks, total_duration),
                                            back_start[1], total_duration)
                        ELSE MarkSegments(marks, total_duration)
                   ELSE NoMarkSegments(back_start, total_duration)
    /\ cleaned' = <<>>
    /\ si' = 1
    /\ pc' = "pass1"
    /\ UNCHANGED <<marks, back_start, total_duration, args, silences>>
    /\ UNCHANGED silVars
    /\ UNCHANGED filtVars
    /\ UNCHANGED extVars

(* Variant of Pass1Step: a short chapter with no kept predecessor is kept. *)
Pass1Step_KeepsFirstShort ==
    /\ pc = "pass1"
    /\ si <= Len(segments)
    /\ LET seg == segments[si]
       IN IF IsChapter(seg[3]) /\ (seg[2] - seg[1]) < args.min_chapter_duration /\ cleaned # <<>>
          THEN cleaned' = [cleaned EXCEPT ![Len(cleaned)] =
                              <<cleaned[Len(cleaned)][1], seg[2], cleaned[Len(cleaned)][3]>>]
          ELSE cleaned' = Append(cleaned, seg)
    /\ si' = si + 1
    /\ UNCHANGED <<pc, segments, marks, back_start, total_duration, args, silences>>
    /\ UNCHANGED silVars
    /\ UNCHANGED filtVars
    /\ UNCHANGED extVars

(* Variant of Pass1Step: the merged segment takes the short one's label.   *)
Pass1Step_TakesLabel ==
    /\ pc = "pass1"
    /\ si <= Len(segments)
    /\ LET seg == segments[si]
       IN IF IsChapter(seg[3]) /\ (seg[2] - seg[1]) < args.min_chapter_duration
          THEN IF cleaned # <<>>
               THEN cleaned' = [cleaned EXCEPT ![Len(cleaned)] =
                                   <<cleaned[Len(cleaned)][1], seg[2], seg[3]>>]
               ELSE UNCHANGED cleaned
          ELSE cleaned' = Append(cleaned, seg)
    /\ si' = si + 1
    /\ UNCHANGED <<pc, segments, marks, back_start, total_duration, args, silences>>
    /\ UNCHANGED silVars
    /\ UNCHANGED filtVars
    /\ UNCHANGED extVars

(* One iteration of the first minimum-duration loop.                       *)
Pass1Step ==
    /\ pc = "pass1"
    /\ si <= Len(segments)
    /\ LET seg == segments[si]
           ss == seg[1]
           ee == seg[2]
           lab == seg[3]
           dur == ee - ss
       IN IF IsChapter(lab) /\ dur < args.min_chapter_duration
          THEN IF cleaned # <<>>
               THEN cleaned' = [cleaned EXCEPT ![Len(cleaned)] =
                                   <<cleaned[Len(cleaned)][1], ee, cleaned[Len(cleaned)][3]>>]
               ELSE UNCHANGED cleaned
          ELSE cleaned' = Append(cleaned, seg)
    /\ si' = si + 1
    /\ UNCHANGED <<pc, segments, marks, back_start, total_duration, args, silences>>
    /\ UNCHANGED silVars
    /\ UNCHANGED filtVars
    /\ UNCHANGED extVars

(* Second pass: lab.startswith("chapter_") and                             *)
(* (ee - ss) < max(1.0, min_chapter_duration * 0.5).                       *)
TooShortPass2(seg) ==
    IsChapter(seg[3]) /\ 2 * (seg[2] - seg[1]) < Max(2 * Scale, args.min_chapter_duration)

Pass2 ==
    /\ pc = "pass1"
    /\ si > Len(segments)
    /\ segments' = SelectSeq(cleaned, LAMBDA seg : ~TooShortPass2(seg))
    /\ pc' = "cleanup"
    /\ UNCHANGED <<cleaned, si, marks, back_start, total_duration, args, silences>>
    /\ UNCHANGED silVars
    /\ UNCHANGED filtVars
    /\ UNCHANGED extVars

(* Variant of KeptByCleanup: "> 1.0" instead of ">= 1.0".                  *)
KeptByCleanup_Strict(seg) == (seg[2] - seg[1]) > Scale

(* segments = [s for s in segments if (s[1] - s[0]) >= 1.0]                *)
KeptByCleanup(seg) == (seg[2] - seg[1]) >= Scale

DropMicroscopic ==
    /\ pc = "cleanup"
    /\ segments' = SelectSeq(segments, KeptByCleanup)
    /\ pc' = "done"
    /\ UNCHANGED <<cleaned, si, marks, back_start, total_duration, args, silences>>
    /\ UNCHANGED silVars
    /\ UNCHANGED filtVars
    /\ UNCHANGED extVars

(***************************************************************************)
(* Inputs of the segment builder: the final marks (in time order, inside   *)
(* the recording, numbered 1..k as sequential mode leaves them), the       *)
(* back-matter start, the total duration and min_chapter_duration.         *)
(***************************************************************************)
RECURSIVE TimeLists(_, _)
TimeLists(total, n) ==
    IF n = 0 THEN {<<>>}
    ELSE LET shorter == TimeLists(total, n - 1) IN
         shorter \cup UNION {{Append(ts, t) : t \in (IF ts = <<>> THEN 0 ELSE ts[Len(ts)])..total} :
                                ts \in {x \in shorter : Len(x) = n - 1}}

MarkLists(total) ==
    {[i \in 1..Len(ts) |-> <<ts[i], ts[i] + PhraseLen, i>>] : ts \in TimeLists(total, MaxMarks)}

InitSeg ==
    /\ pc = "build_segments"
    /\ total_duration \in 1..MaxTotal
    /\ marks \in MarkLists(total_duration)
    /\ back_start \in {None} \cup {Some(b) : b \in 0..total_duration}
    /\ args \in [min_chapter_gap : {0}, min_chapter_duration : 0..MaxMinDur,
                 sequential_chapters : {FALSE}, silence_pre : {0}, silence_post : {0}]
    /\ segments = <<>> /\ cleaned = <<>> /\ si = 0
    /\ silences = <<>>
    /\ seen = <<>>
    /\ IdleSil /\ IdleFilt /\ IdleParse /\ IdleGram

NextSeg == BuildSegments \/ Pass1Step \/ Pass2 \/ DropMicroscopic

SpecSeg == InitSeg /\ [][NextSeg]_vars

(***************************************************************************)
(* C3: in the final segment list segments[i].end = segments[i+1].start     *)
(* for every adjacent pair.                                                *)
(***************************************************************************)
Contiguous(segs) == \A i \in 1..(Len(segs) - 1) : segs[i][2] = segs[i + 1][1]

C3_FinalSegmentsContiguous == pc = "done" => Contiguous(segments)

(***************************************************************************)
(* C4: in the final segment list every segment lasts at least 1.0 second   *)
(* and every chapter segment lasts at least min_chapter_duration.          *)
(***************************************************************************)
C4_MinimumDurations ==
    pc = "done" =>
        \A i \in 1..Len(segments) :
            /\ segments[i][2] - segments[i][1] >= Scale
            /\ IsChapter(segments[i][3]) =>
                   segments[i][2] - segments[i][1] >= args.min_chapter_duration

(* A short chapter was absorbed by its predecessor and another survives.   *)
C4_Witness ==
    /\ pc = "done"
    /\ args.min_chapter_duration > Scale
    /\ Len(marks) = 3
    /\ Len(segments) = 2
    /\ IsChapter(segments[1][3]) /\ IsChapter(segments[2][3])

(***************************************************************************)
(* C8: with marks and a back-matter start back_start such that             *)
(* total_duration - back_start >= 1.0, the segment list before the         *)
(* minimum-duration passes has no non-back_matter segment starting at or   *)
(* after back_start, the segment straddling back_start ends at back_start, *)
(* and the last segment is (back_start, total_duration, back_matter).      *)
(***************************************************************************)
BeforeMinDuration == pc = "pass1" /\ si = 1

C8_BackMatterTruncation ==
    (BeforeMinDuration /\ marks # <<>> /\ back_start # None
        /\ total_duration - back_start[1] >= Scale) =>
        /\ \A i \in 1..Len(segments) :
               segments[i][3] # <<"back_matter">> =>
                   /\ segments[i][1] < back_start[1]
                   /\ segments[i][2] <= back_start[1]
        /\ \A i \in 1..Len(MarkSegments(marks, total_duration)) :
               LET m == MarkSegments(marks, total_duration)[i] IN
               (m[1] < back_start[1] /\ back_start[1] < m[2]) =>
                   \E j \in 1..Len(segments) : segments[j] = <<m[1], back_start[1], m[3]>>
        /\ segments[Len(segments)] = <<back_start[1], total_duration, <<"back_matter">>>>

(* Three chapters, the third straddling back_start, as in the example.     *)
C8_Witness ==
    /\ BeforeMinDuration
    /\ Len(marks) = 3 /\ marks[1][1] = 0
    /\ back_start # None
    /\ Len(segments) = 4
    /\ segments[3][1] = marks[3][1]
    /\ segments[3][2] = back_start[1]
    /\ segments[3][2] < total_duration
    /\ segments[4] = <<back_start[1], total_duration, <<"back_matter">>>>

(***************************************************************************)
(* C9: with no mark and no back-matter start the final segment list is     *)
(* exactly one segment (0, total_duration, preface).                       *)
(***************************************************************************)
C9_WholeFilePreface ==
    (pc = "done" /\ marks = <<>> /\ back_start = None) =>
        segments = <<<<0, total_duration, <<"preface">>>>>>

(* As amended: that holds when total_duration >= 1.0; a shorter recording  *)
(* ends with an empty segment list.                                        *)
C9_WholeFilePrefaceAmended ==
    (pc = "done" /\ marks = <<>> /\ back_start = None) =>
        segments = IF total_duration >= Scale
                   THEN <<<<0, total_duration, <<"preface">>>>>>
                   ELSE <<>>

C9_Witness ==
    /\ pc = "done" /\ marks = <<>> /\ back_start = None
    /\ total_duration >= Scale
    /\ segments = <<<<0, total_duration, <<"preface">>>>>>

(***************************************************************************)
(* C13: whenever the final segment list is non-empty, its first segment    *)
(* starts at 0 and its last segment ends at total_duration.                *)
(***************************************************************************)
C13_FirstAtZeroLastAtTotal ==
    (pc = "done" /\ segments # <<>>) =>
        /\ segments[1][1] = 0
        /\ segments[Len(segments)][2] = total_duration

(***************************************************************************)
(* C14: in pass 1 a chapter segment shorter than min_chapter_duration is   *)
(* absorbed into the previously kept segment (whose end becomes the short  *)
(* segment's end, start and label unchanged, no other kept segment         *)
(* changed); with no previously kept segment it is dropped and nothing     *)
(* else changes.                                                           *)
(***************************************************************************)
ShortChapterNext ==
    /\ pc = "pass1" /\ si <= Len(segments)
    /\ IsChapter(segments[si][3])
    /\ segments[si][2] - segments[si][1] < args.min_chapter_duration

C14_Pass1Absorbs ==
    [][ShortChapterNext =>
          /\ segments' = segments
          /\ Len(cleaned') = Len(cleaned)
          /\ \A i \in 1..Len(cleaned) :
                 IF i = Len(cleaned)
                 THEN cleaned'[i] = <<cleaned[i][1], segments[si][2], cleaned[i][3]>>
                 ELSE cleaned'[i] = cleaned[i]]_vars

(* A short third segment has just been absorbed by the second kept one.    *)
C14_Witness ==
    /\ pc = "pass1" /\ si = 4
    /\ IsChapter(segments[3][3])
    /\ segments[3][2] - segments[3][1] < args.min_chapter_duration
    /\ segments[3][2] > segments[3][1]
    /\ cleaned = <<segments[1], <<segments[2][1], segments[3][2], segments[2][3]>>>>

(***************************************************************************)
(* C15: the debounce is strictly greedy and prefix-stable.  Scanning the   *)
(* candidates in t_start order, a candidate is kept exactly when it passes *)
(* the gate (or the silence set is empty) and its t_start minus the        *)
(* t_start of the most recently kept candidate is >= min_chapter_gap; a    *)
(* rejected candidate never changes last_keep_t; what has been kept stays  *)
(* a prefix of what is kept later.                                         *)
(***************************************************************************)
LastKeptStart == IF chapters = <<>> THEN NegInf ELSE chapters[Len(chapters)][1]

CandidatePassesGate(c) ==
    \/ silences = <<>>
    \/ passes_silence_gate(c[2], c[3], s_starts, s_ends, args.silence_pre, args.silence_post)

C15_GreedyPrefixStable ==
    [][(pc = "debounce" /\ ci <= Len(chapter_candidates)) =>
          LET c == chapter_candidates[ci]
              keep == CandidatePassesGate(c) /\ c[2] - LastKeptStart >= args.min_chapter_gap
          IN /\ (ci > 1 => chapter_candidates[ci - 1][2] <= c[2])
             /\ last_keep_t = LastKeptStart
             /\ keep => /\ chapters' = Append(chapters, <<c[2], c[3], c[4]>>)
                        /\ last_keep_t' = c[2]
             /\ ~keep => /\ chapters' = chapters
                         /\ last_keep_t' = last_keep_t]_vars

(* A candidate that passes the gate was rejected for its gap, and the next *)
(* one is measured from the mark kept before it.                           *)
C15_Witness ==
    /\ pc = "debounce" /\ ci = 4
    /\ silences # <<>>
    /\ Len(chapters) = 2
    /\ chapters[1] = Tail(chapter_candidates[1])
    /\ chapters[2] = Tail(chapter_candidates[3])
    /\ CandidatePassesGate(chapter_candidates[2])
    /\ last_keep_t = chapter_candidates[3][2]

(***************************************************************************)
(* C16: every silence interval returned by the detector's normalisation    *)
(* satisfies 0 <= start <= end, for any raw (start, end) pair.             *)
(***************************************************************************)
C16_NormalizedWellFormed ==
    pc \in {"detected", "indexed"} => WellFormed(silences)

(***************************************************************************)
(* C17: while the detector log is parsed, every well-formed silence_end    *)
(* line yields exactly one interval; its start is the value of the most    *)
(* recent silence_start line seen since the previous silence_end line, or  *)
(* the interval is zero-length when there is none; the pending start is    *)
(* cleared after each silence_end.  (Lines whose number does not parse     *)
(* count as neither.)                                                      *)
(***************************************************************************)
EndLines == {i \in 1..Len(seen) : seen[i][1] = "end"}
StartLines == {i \in 1..Len(seen) : seen[i][1] = "start"}
PreviousEnd(i) == IF {j \in EndLines : j < i} = {} THEN 0 ELSE SetMax({j \in EndLines : j < i})
StartsSince(i) == {j \in StartLines : PreviousEnd(i) < j /\ j < i}
ExpectedInterval(i) ==
    <<IF StartsSince(i) = {} THEN seen[i][2] ELSE seen[SetMax(StartsSince(i))][2], seen[i][2]>>

C17_OneIntervalPerEndLine ==
    /\ Len(raw_silences) = Cardinality(EndLines)
    /\ \A i \in EndLines :
           raw_silences[Cardinality({j \in EndLines : j <= i})] = ExpectedInterval(i)
    /\ last_start = IF StartsSince(Len(seen) + 1) = {} THEN None
                    ELSE Some(seen[SetMax(StartsSince(Len(seen) + 1))][2])

(* start, end, end: the first end takes the pending start, the second end *)
(* finds none and yields a zero-length interval.                           *)
C17_Witness ==
    /\ pc = "parse_log" /\ log = <<>>
    /\ Len(seen) = 3
    /\ seen[1][1] = "start" /\ seen[2][1] = "end" /\ seen[3][1] = "end"
    /\ seen[1][2] # seen[2][2]
    /\ raw_silences = <<<<seen[1][2], seen[2][2]>>, <<seen[3][2], seen[3][2]>>>>
    /\ last_start = None

(***************************************************************************)
(* Phrase generators (EN/RU).                                              *)
(***************************************************************************)
MaxChapters == 999
MaxDepth == 8

EnUnits == <<"", "one", "two", "three", "four", "five", "six", "seven", "eight", "nine">>
EnTeens == <<"ten", "eleven", "twelve", "thirteen", "fourteen", "fifteen", "sixteen",
             "seventeen", "eighteen", "nineteen">>
EnTens == <<"", "", "twenty", "thirty", "forty", "fifty", "sixty", "seventy", "eighty",
            "ninety">>

RECURSIVE english_cardinal(_)
english_cardinal(n) ==
    IF n = 0 THEN <<"zero">>
    ELSE IF n < 10 THEN <<EnUnits[n + 1]>>
    ELSE IF n < 20 THEN <<EnTeens[n - 10 + 1]>>
    ELSE IF n < 100
         THEN IF n % 10 = 0 THEN <<EnTens[(n \div 10) + 1]>>
              ELSE <<EnTens[(n \div 10) + 1], EnUnits[(n % 10) + 1]>>
    ELSE IF n < 1000
         THEN IF n % 100 = 0 THEN <<EnUnits[(n \div 100) + 1], "hundred">>
              ELSE <<EnUnits[(n \div 100) + 1], "hundred">> \o english_cardinal(n % 100)
    ELSE <<ToString(n)>>

(* The dictionary "base" of english_ordinal_basic.                         *)
EnOrdinalBase ==
    [k \in (1..20) \cup {30, 40, 50, 60, 70, 80, 90, 100} |->
        IF k <= 20
        THEN <<"first", "second", "third", "fourth", "fifth", "sixth", "seventh", "eighth",
               "ninth", "tenth", "eleventh", "twelfth", "thirteenth", "fourteenth",
               "fifteenth", "sixteenth", "seventeenth", "eighteenth", "nineteenth",
               "twentieth">>[k]
        ELSE IF k = 100 THEN "hundredth"
        ELSE <<"thirtieth", "fortieth", "fiftieth", "sixtieth", "seventieth", "eightieth",
               "ninetieth">>[(k \div 10) - 2]]

RuUnits == <<"", "odin", "dva", "tri", "chetyre", "pyat", "shest", "sem", "vosem", "devyat">>
RuTeens == <<"desyat", "odinnadtsat", "dvenadtsat", "trinadtsat", "chetyrnadtsat",
             "pyatnadtsat", "shestnadtsat", "semnadtsat", "vosemnadtsat", "devyatnadtsat">>
RuTens == <<"", "desyat", "dvadtsat", "tridtsat", "sorok", "pyatdesyat", "shestdesyat",
            "semdesyat", "vosemdesyat", "devyanosto">>
RuHundreds == <<"", "sto", "dvesti", "trista", "chetyresta", "pyatsot", "shestsot",
                "semsot", "vosemsot", "devyatsot">>

RECURSIVE russian_cardinal(_)
russian_cardinal(n) ==
    IF n = 0 THEN <<"nol">>
    ELSE IF n < 10 THEN <<RuUnits[n + 1]>>
    ELSE IF n < 20 THEN <<RuTeens[n - 10 + 1]>>
    ELSE IF n < 100
         THEN IF n % 10 = 0 THEN <<RuTens[(n \div 10) + 1]>>
              ELSE <<RuTens[(n \div 10) + 1], RuUnits[(n % 10) + 1]>>
    ELSE IF n < 1000
         THEN IF n % 100 = 0 THEN <<RuHundreds[(n \div 100) + 1]>>
              ELSE <<RuHundreds[(n \div 100) + 1]>> \o russian_cardinal(n % 100)
    ELSE <<ToString(n)>>

(* Returns None or Some(phrase).                                           *)
russian_ordinal_basic(n) ==
    IF n \in 1..10
    THEN Some(<<<<"pervaya", "vtoraya", "tretya", "chetvertaya", "pyataya", "shestaya",
                  "sedmaya", "vosmaya", "devyataya", "desyataya">>[n]>>)
    ELSE None

(* trigger = "глава" if language == "ru" else "chapter" (no --trigger).    *)
Trigger(lang) == IF lang = "ru" THEN "glava" ELSE "chapter"

Cardinal_DropsUnits(lang, n) ==
    IF lang = "ru" THEN russian_cardinal(n - (n % 10)) ELSE english_cardinal(n - (n % 10))
Cardinal(lang, n) == IF lang = "ru" THEN russian_cardinal(n) ELSE english_cardinal(n)

(* spoken_to_int[spoken] = n                                               *)
MapPut(map, key, val) ==
    [k \in (DOMAIN map) \cup {key} |-> IF k = key THEN val ELSE map[k]]

(***************************************************************************)
(* build_phrase_map, one loop iteration per step.  english_ordinal_basic   *)
(* runs on an explicit call stack: a frame is <<n, stage>>, and ord_ret    *)
(* holds the value a call has just returned (None, or Some of a phrase).   *)
(* The loop for n in range(1, max_chapters + 1) goes on at n when          *)
(* max_chapters >= n and ends when max_chapters = n - 1, so max_chapters   *)
(* is fixed at the step that leaves the loop.                              *)
(***************************************************************************)
gramRest == <<log, raw_silences, last_start, silences, s_starts, s_ends, query, args,
              raw_candidates, chapter_candidates, ci, chapters, last_keep_t, marks,
              back_start, total_duration, segments, cleaned, si, seen, parseVars>>

(* phrases.append(f"{trigger} {spoken}")                                   *)
Emit(list, lang, spoken) == Append(list, <<Trigger(lang)>> \o spoken)

BuildStep ==
    /\ pc = "build_loop"
    /\ cur_n <= MaxChapters
    /\ LET spoken == Cardinal(language, cur_n)
           withCard == Emit(phrases, language, spoken)
           mapCard == MapPut(spoken_to_int, spoken, cur_n)
           ordw == russian_ordinal_basic(cur_n)
       IN IF include_ordinals /\ language # "ru"
          THEN /\ phrases' = withCard
               /\ phrase_n' = Append(phrase_n, cur_n)
               /\ spoken_to_int' = mapCard
               /\ ord_stack' = <<<<cur_n, "enter">>>>
               /\ pc' = "ordinal"
               /\ UNCHANGED cur_n
          ELSE IF include_ordinals /\ ordw # None
          THEN /\ phrases' = Emit(withCard, language, ordw[1])
               /\ phrase_n' = phrase_n \o <<cur_n, cur_n>>
               /\ spoken_to_int' = MapPut(mapCard, ordw[1], cur_n)
               /\ cur_n' = cur_n + 1
               /\ UNCHANGED <<pc, ord_stack>>
          ELSE /\ phrases' = withCard
               /\ phrase_n' = Append(phrase_n, cur_n)
               /\ spoken_to_int' = mapCard
               /\ cur_n' = cur_n + 1
               /\ UNCHANGED <<pc, ord_stack>>
    /\ UNCHANGED <<language, include_ordinals, max_chapters, ord_ret>>
    /\ UNCHANGED gramRest

(* return v from the top frame                                             *)
OrdReturn(v) ==
    /\ ord_stack' = SubSeq(ord_stack, 1, Len(ord_stack) - 1)
    /\ ord_ret' = <<v>>
    /\ UNCHANGED pc

(* the top frame calls english_ordinal_basic(m) and waits in stage         *)
OrdCall(m, stage) ==
    IF Len(ord_stack) + 1 > MaxDepth
    THEN /\ pc' = "recursion_error"
         /\ UNCHANGED <<ord_stack, ord_ret>>
    ELSE /\ ord_stack' = Append([ord_stack EXCEPT ![Len(ord_stack)] = <<@[1], stage>>],
                                <<m, "enter">>)
         /\ ord_ret' = None
         /\ UNCHANGED pc

(* english_ordinal_basic from "if n < 1000:" to the end                    *)
OrdHundreds(n) ==
    LET h == (n \div 100) * 100
        rem == n % 100
    IN IF n < 1000 /\ rem = 0 /\ h \in DOMAIN EnOrdinalBase
       THEN OrdReturn(Some(<<EnOrdinalBase[h]>>))
       ELSE IF n < 1000 /\ h # 0
       THEN OrdCall(rem, "tail3")
       ELSE OrdReturn(None)

OrdinalCall ==
    /\ pc = "ordinal"
    /\ ord_stack # <<>>
    /\ ord_stack[Len(ord_stack)][2] = "enter"
    /\ LET n == ord_stack[Len(ord_stack)][1]
       IN IF n \in DOMAIN EnOrdinalBase
          THEN OrdReturn(Some(<<EnOrdinalBase[n]>>))
          ELSE IF n < 100
          THEN OrdCall(n % 10, "tail2")
          ELSE OrdHundreds(n)
    /\ UNCHANGED <<language, include_ordinals, max_chapters, cur_n, phrases, phrase_n,
                   spoken_to_int>>
    /\ UNCHANGED gramRest

OrdinalResume ==
    /\ pc = "ordinal"
    /\ ord_stack # <<>>
    /\ ord_stack[Len(ord_stack)][2] # "enter"
    /\ ord_ret # None
    /\ LET n == ord_stack[Len(ord_stack)][1]
           stage == ord_stack[Len(ord_stack)][2]
           tail == ord_ret[1]
       IN IF stage = "tail2"
          THEN IF ((n \div 10) * 10) \in DOMAIN EnOrdinalBase /\ tail # None
               THEN OrdReturn(Some(english_cardinal((n \div 10) * 10) \o tail[1]))
               ELSE OrdHundreds(n)
          ELSE OrdReturn(Some(english_cardinal((n \div 100) * 100)
                              \o (IF tail # None THEN tail[1] ELSE english_cardinal(n % 100))))
    /\ UNCHANGED <<language, include_ordinals, max_chapters, cur_n, phrases, phrase_n,
                   spoken_to_int>>
    /\ UNCHANGED gramRest

(* ordw = english_ordinal_basic(n) has returned into build_phrase_map      *)
BuildOrdinal ==
    /\ pc = "ordinal"
    /\ ord_stack = <<>>
    /\ ord_ret # None
    /\ LET ordw == ord_ret[1]
       IN IF ordw # None
          THEN /\ phrases' = Emit(phrases, language, ordw[1])
               /\ phrase_n' = Append(phrase_n, cur_n)
               /\ spoken_to_int' = MapPut(spoken_to_int, ordw[1], cur_n)
          ELSE UNCHANGED <<phrases, phrase_n, spoken_to_int>>
    /\ cur_n' = cur_n + 1
    /\ ord_ret' = None
    /\ pc' = "build_loop"
    /\ UNCHANGED <<language, include_ordinals, max_chapters, ord_stack>>
    /\ UNCHANGED gramRest

(* phrases.append(trigger); return phrases, spoken_to_int                  *)
BuildFinish ==
    /\ pc = "build_loop"
    /\ max_chapters' = Some(cur_n - 1)
    /\ phrases' = Append(phrases, <<Trigger(language)>>)
    /\ phrase_n' = Append(phrase_n, 0)
    /\ pc' = "built"
    /\ UNCHANGED <<language, include_ordinals, cur_n, spoken_to_int, ord_stack, ord_ret>>
    /\ UNCHANGED gramRest

(***************************************************************************)
(* Recognition results and parse_phrase.  A result is a record of two      *)
(* optional fields, text (a phrase) and result (the word list); a word is  *)
(* a record of three optional fields start, end, conf.  A missing key is   *)
(* None.  Confidence is in ticks, ConfOne ticks being 1.0.  The kind None  *)
(* of the source is written "none".                                        *)
(***************************************************************************)
ConfOne == 2
MaxDigits == 9
MaxResults == 1

DigitWords == {ToString(k) : k \in 0..MaxDigits}
(* int(tail)                                                               *)
DigitValue(w) == CHOOSE k \in 0..MaxDigits : ToString(k) = w

(* w.get("conf", 1.0)                                                      *)
WordConf(w) == IF w.conf = None THEN ConfOne ELSE w.conf[1]
(* w.get("end", 0.0)                                                       *)
WordEnd(w) == IF w.end = None THEN 0 ELSE w.end[1]

ConfOk_FirstWordOnly(words, cmin) == WordConf(words[1]) >= cmin
ConfOk(words, cmin) == \A i \in 1..Len(words) : WordConf(words[i]) >= cmin

(* n = spoken_to_int.get(tail); if n is None and tail.isdigit(): int(tail) *)
LookupNumber(map, tail) ==
    IF tail \in DOMAIN map THEN Some(map[tail])
    ELSE IF Len(tail) = 1 /\ tail[1] \in DigitWords THEN Some(DigitValue(tail[1]))
    ELSE None

parse_phrase(res_obj, trig, back, map, cmin) ==
    LET text == IF res_obj.text = None THEN <<>> ELSE res_obj.text[1]
        words == IF res_obj.result = None THEN <<>> ELSE res_obj.result[1]
    IN IF text = <<>> \/ words = <<>>
       THEN <<"none", None, None, None, TRUE>>
       ELSE LET conf_ok == ConfOk(words, cmin)
                t_start == words[1].start
                t_end == Some(SetMax({WordEnd(words[i]) : i \in 1..Len(words)}))
                n == LookupNumber(map, SubSeq(text, 2, Len(text)))
            IN IF ~conf_ok \/ t_start = None \/ t_end = None
               THEN <<"none", None, None, None, conf_ok>>
               ELSE IF back # None /\ text = back[1]
               THEN <<"back", t_start[1], t_end[1], None, conf_ok>>
               ELSE IF text = <<trig>>
               THEN <<"none", None, None, None, conf_ok>>
               ELSE IF Len(text) >= 2 /\ text[1] = trig /\ n # None /\ n # Some(0)
               THEN <<"chapter", t_start[1], t_end[1], n[1], conf_ok>>
               ELSE <<"none", None, None, None, conf_ok>>

(* if kind and ok: raw_candidates.append((kind, ts, te, n))                *)
AppendCandidate(list, p) ==
    IF p[1] # "none" /\ p[5] THEN Append(list, <<p[1], p[2], p[3], p[4]>>) ELSE list

(* The map build_phrase_map returns for cardinals 1..k.                    *)
NumberWords(lang, k) ==
    [spoken \in {Cardinal(lang, m) : m \in 1..k} |->
        CHOOSE m \in 1..k : Cardinal(lang, m) = spoken]

BackPhrase == <<"epilogue">>

(* The word at position i of a phrase: complete with any confidence, or    *)
(* with one of its three keys missing.                                     *)
WordsAt(i) ==
    {[start |-> Some(i - 1), end |-> Some(i), conf |-> Some(c)] : c \in 0..ConfOne}
        \cup {[start |-> None, end |-> Some(i), conf |-> Some(ConfOne)],
              [start |-> Some(i - 1), end |-> None, conf |-> Some(ConfOne)],
              [start |-> Some(i - 1), end |-> Some(i), conf |-> None]}

WordLists(len) ==
    IF len = 1 THEN {<<w>> : w \in WordsAt(1)}
    ELSE {<<w1, w2>> : w1 \in WordsAt(1), w2 \in WordsAt(2)}

Texts(lang) ==
    {<<Trigger(lang), ToString(MaxDigits)>>}
        \cup {<<Trigger(lang)>> \o Cardinal(lang, m) : m \in 1..MaxNum}

Results(lang) ==
    {[text |-> Some(t), result |-> Some(ws)] : t \in Texts(lang), ws \in WordLists(2)}
        \cup {[text |-> Some(t), result |-> Some(ws)] :
                 t \in {<<Trigger(lang)>>, BackPhrase}, ws \in WordLists(1)}
        \cup {[text |-> None, result |-> Some(ws)] : ws \in WordLists(1)}
        \cup {[text |-> t, result |-> ws] :
                 t \in {None, Some(<<Trigger(lang), "one">>)}, ws \in {None, Some(<<>>)}}

parseRest == <<log, raw_silences, last_start, silences, s_starts, s_ends, query, args,
               chapter_candidates, ci, chapters, last_keep_t, marks, back_start,
               total_duration, segments, cleaned, si, seen, conf_min, back_trigger,
               gramVars>>

(* One result of rec.Result() in the streaming loop.                       *)
Recognize ==
    /\ pc = "recognize"
    /\ results_left > 0
    /\ \E r \in Results(language) :
         /\ res' = Some(r)
         /\ raw_candidates' = AppendCandidate(raw_candidates,
                parse_phrase(r, Trigger(language), back_trigger, spoken_to_int, conf_min))
    /\ results_left' = results_left - 1
    /\ UNCHANGED pc
    /\ UNCHANGED parseRest

(* rec.FinalResult() after the last block of audio.                        *)
Flush ==
    /\ pc = "recognize"
    /\ results_left = 0
    /\ \E r \in Results(language) :
         /\ res' = Some(r)
         /\ raw_candidates' = AppendCandidate(raw_candidates,
                parse_phrase(r, Trigger(language), back_trigger, spoken_to_int, conf_min))
    /\ pc' = "recognized"
    /\ UNCHANGED results_left
    /\ UNCHANGED parseRest

InitParse ==
    /\ pc = "recognize"
    /\ res = None
    /\ results_left \in 0..MaxResults
    /\ conf_min \in 1..ConfOne
    /\ back_trigger \in {None, Some(BackPhrase)}
    /\ language = "en"
    /\ spoken_to_int = NumberWords(language, MaxNum)
    /\ raw_candidates = <<>>
    /\ include_ordinals = FALSE /\ max_chapters = Some(MaxNum) /\ cur_n = 0
    /\ phrases = <<>> /\ phrase_n = <<>> /\ ord_stack = <<>> /\ ord_ret = None
    /\ chapter_candidates = <<>> /\ ci = 0 /\ chapters = <<>> /\ last_keep_t = 0
    /\ silences = <<>> /\ args = NoArgs /\ marks = <<>> /\ back_start = None
    /\ seen = <<>>
    /\ IdleSil /\ IdleSeg

NextParse == Recognize \/ Flush

SpecParse == InitParse /\ [][NextParse]_vars

(***************************************************************************)
(* The grammar builder, for both languages, with and without ordinals.     *)
(***************************************************************************)
InitGram ==
    /\ pc = "build_loop"
    /\ language \in {"en", "ru"}
    /\ include_ordinals \in BOOLEAN
    /\ max_chapters = None
    /\ cur_n = 1
    /\ phrases = <<>> /\ phrase_n = <<>> /\ spoken_to_int = <<>>
    /\ ord_stack = <<>> /\ ord_ret = None
    /\ silences = <<>> /\ args = NoArgs /\ marks = <<>> /\ back_start = None
    /\ seen = <<>>
    /\ IdleSil /\ IdleFilt /\ IdleSeg /\ IdleParse

NextGram == BuildStep \/ OrdinalCall \/ OrdinalResume \/ BuildOrdinal \/ BuildFinish

SpecGram == InitGram /\ [][NextGram]_vars

(***************************************************************************)
(* Claims about the candidate parser.                                      *)
(***************************************************************************)
Words(r) == IF r.result = None THEN <<>> ELSE r.result[1]
LowWord(r, cmin) ==
    \E i \in 1..Len(Words(r)) : Words(r)[i].conf # None /\ Words(r)[i].conf[1] < cmin
Complete(r) ==
    /\ r.text # None /\ r.result # None
    /\ \A i \in 1..Len(Words(r)) :
          Words(r)[i].start # None /\ Words(r)[i].end # None /\ Words(r)[i].conf # None

(* C11: a recognition result in which some word's confidence is below the  *)
(* floor adds nothing to the candidate list, whatever its text.            *)
C11_ConfidenceGate ==
    [][(pc = "recognize" /\ res' # None /\ LowWord(res'[1], conf_min))
          => raw_candidates' = raw_candidates]_vars

(* The flushed result reads "<trigger> one" with every field present, its  *)
(* first word at the floor and its second word below it; nothing was kept. *)
C11_Witness ==
    /\ pc = "recognized"
    /\ res # None
    /\ Complete(res[1])
    /\ res[1].text = Some(<<Trigger(language)>> \o Cardinal(language, 1))
    /\ Len(Words(res[1])) = 2
    /\ Words(res[1])[1].conf[1] >= conf_min
    /\ Words(res[1])[2].conf[1] < conf_min
    /\ raw_candidates = <<>>

(* C18: a recognition result with a missing field (no text, no word list,  *)
(* or a word without start, end or conf) adds nothing to the candidate     *)
(* list.                                                                   *)
C18_MalformedYieldsNothing ==
    [][(pc = "recognize" /\ res' # None /\ ~Complete(res'[1]))
          => raw_candidates' = raw_candidates]_vars

(***************************************************************************)
(* Claims about the grammar builder.                                       *)
(***************************************************************************)
(* A phrase as the recognizer reports it, every word with confidence c.    *)
Recognised(phrase, c) ==
    [text |-> Some(phrase),
     result |-> Some([i \in 1..Len(phrase) |->
                         [start |-> Some(i - 1), end |-> Some(i), conf |-> Some(c)]])]

(* C12: every cardinal and ordinal phrase the builder returned for a       *)
(* number n, recognised with all words at the floor or at full            *)
(* confidence, is parsed into a chapter candidate with number n, with or   *)
(* without a back trigger configured.                                      *)
C12_RoundTrip ==
    pc = "built" =>
        \A i \in 1..Len(phrases) : phrase_n[i] # 0 =>
            \A c \in {1, ConfOne} : \A back \in {None, Some(BackPhrase)} :
                LET p == parse_phrase(Recognised(phrases[i], c), Trigger(language), back,
                                      spoken_to_int, 1)
                IN p[1] = "chapter" /\ p[4] = phrase_n[i] /\ p[5]

(* A grammar with hundreds, teens, tens and units, and ordinals.           *)
C12_Witness ==
    /\ pc = "built"
    /\ include_ordinals
    /\ max_chapters = Some(121)
    /\ Len(phrases) > 121

(* C19: the builder never runs out of stack, and what it returns ends with *)
(* the bare trigger.                                                       *)
C19_BuilderTerminates ==
    /\ pc # "recursion_error"
    /\ pc = "built" => phrases[Len(phrases)] = <<Trigger(language)>>

====
